---- MODULE Spec2Model ----
(***************************************************************************)
(* brewery/ds/base.py: the abstract data streams (DataStream, DataSource,  *)
(* DataTarget), the context-manager lifecycle and DataSource.read_fields,  *)
(* the field inference scan.                                               *)
(*                                                                         *)
(* Python values are modelled as follows.                                  *)
(*   - an optional value (None or x) is the sequence <<>> or <<x>>;        *)
(*   - a value is [type, items]: type is the name of its class             *)
(*     (type(value).__name__), items is the list value.items() of a        *)
(*     mapping, in the order the mapping iterates, and <<>> for a scalar;  *)
(*   - a dict is a function from its keys, the empty dict is <<>>;         *)
(*   - an instance attribute that may be missing is [defined, value].      *)
(***************************************************************************)
EXTENDS Naturals, Sequences, FiniteSets, TLC

\* Longest record stream a source yields.
MaxRecords == 3
\* Largest limit passed to read_fields.
MaxLimit == 2
\* Most rows the body of a with-block consumes.
MaxBody == 3
\* Most with-blocks entered on one stream.
MaxUses == 4
\* Most append calls made on one target.
MaxAppends == 2

VARIABLES
    \* ---- DataSource and one call of read_fields
    expand,       \* self.expand: "undefined" (DataSource.__init__ sets none), "True", "False"
    implemented,  \* whether the class overrides records()
    total,        \* how many records records() yields before it is exhausted
    yielded,      \* the records the iterator of self.records() has yielded, in order
    fields,       \* the attribute self.fields: [defined, value]
    pc,           \* position of the caller in read_fields
    limit,        \* argument limit
    collapse,     \* argument collapse
    count,        \* local count
    stack,        \* frames of probe_record: [items, i, parent]
    keys,         \* local keys
    probes,       \* local probes
    j,            \* keys the loop "for key in keys" has taken
    flist,        \* local fields
    result,       \* value returned: [defined, value]
    error,        \* exception propagated to the caller, "" when none
    before,       \* the value of self.fields when read_fields was called
    \* ---- DataStream used in with-blocks
    spc,          \* position of the caller around and in the with-block
    initCalls,    \* calls of initialize() in the current with-block
    finCalls,     \* calls of finalize() in the current with-block
    bodyRan,      \* whether the body of the current with-block started
    consumed,     \* rows the body consumed
    exc,          \* exception in flight, "" when none
    uses,         \* with-blocks entered so far
    \* ---- DataTarget
    tfields,      \* field names of the target
    item,         \* argument of the last append: [kind, values, keys]
    aerror,       \* exception raised by the last append, "" when none
    appends       \* append calls made

readVars == <<expand, implemented, total, yielded, fields, pc, limit, collapse, count,
              stack, keys, probes, j, flist, result, error, before>>
scopeVars == <<spc, initCalls, finCalls, bodyRan, consumed, exc, uses>>
targetVars == <<tfields, item, aerror, appends>>
vars == <<readVars, scopeVars, targetVars>>

(***************************************************************************)
(* Python values                                                           *)
(***************************************************************************)
None == <<>>
Some(x) == <<x>>

\* bool(x) for x None or a string.
Truthy(x) == x # None /\ x[1] # ""

Undefined == [defined |-> FALSE, value |-> <<>>]
Defined(v) == [defined |-> TRUE, value |-> v]

Int == [type |-> "int", items |-> <<>>]
Text == [type |-> "unicode", items |-> <<>>]
Dict(items) == [type |-> "dict", items |-> items]
\* An instance of a subclass of dict.
OrderedDict(items) == [type |-> "OrderedDict", items |-> items]

Range(s) == {s[i] : i \in DOMAIN s}

\* d[k] = v on a dict d.
SetItem(d, k, v) == [x \in DOMAIN d \cup {k} |-> IF x = k THEN v ELSE d[x]]

(***************************************************************************)
(* Collaborators of read_fields: brewery.dq.FieldTypeProbe,                *)
(* brewery.metadata.Field and brewery.common.collapse_record.              *)
(***************************************************************************)
\* FieldTypeProbe(full_key): an accumulator with no evidence yet. evidence
\* lists the class name of every value fed, in feeding order.
FieldTypeProbe(full_key) == [field |-> full_key, evidence |-> <<>>]

\* probe.probe(value)
Probe(probe, value) == [probe EXCEPT !.evidence = Append(@, value.type)]

\* probe.unique_storage_type: the one type all fed values share, else None.
UniqueStorageType(probe) ==
    LET types == Range(probe.evidence)
    IN  IF Cardinality(types) = 1 THEN Some(CHOOSE t \in types : TRUE) ELSE None

\* Field(name): storage type "unknown" and no concrete type until configured.
Field(name) == [name |-> name, storage_type |-> "unknown", concrete_storage_type |-> None]

IsMapping(value) == value.type \in {"dict", "OrderedDict"}

\* The (collapsed key, leaf value) pairs of a mapping's items, depth first.
RECURSIVE CollapsePairs(_, _)
CollapsePairs(items, root) ==
    IF items = <<>> THEN <<>>
    ELSE LET key == Head(items)[1]
             value == Head(items)[2]
             collapsed_key == IF root = None THEN key ELSE root[1] \o "." \o key
             here == IF IsMapping(value)
                     THEN CollapsePairs(value.items, Some(collapsed_key))
                     ELSE << <<collapsed_key, value>> >>
         IN  here \o CollapsePairs(Tail(items), root)

\* d[key] = value for each pair in turn: a key set again keeps its place and
\* takes the later value.
RECURSIVE UpdateAll(_, _)
UpdateAll(d, pairs) ==
    IF pairs = <<>> THEN d
    ELSE LET p == Head(pairs)
             at == {i \in DOMAIN d : d[i][1] = p[1]}
             next == IF at = {} THEN Append(d, p)
                     ELSE [i \in DOMAIN d |-> IF i \in at THEN p ELSE d[i]]
         IN  UpdateAll(next, Tail(pairs))

\* collapse_record(record): the flat mapping of a nested one.
collapse_record(record) == Dict(UpdateAll(<<>>, CollapsePairs(record.items, None)))

(***************************************************************************)
(* DataSource.read_fields                                                  *)
(***************************************************************************)
\* full_key = parent + "." + key if parent else key
FullKey(parent, key) == IF Truthy(parent) THEN parent[1] \o "." \o key ELSE key

\* type(value) == dict
IsExactDict(value) == value.type = "dict"

\* LimitReached without its test of limit: a limit of 0 stops the scan.
LimitReachedUnguarded(lim, cnt) == cnt >= lim

\* limit and count >= limit
LimitReached(lim, cnt) == lim # 0 /\ cnt >= lim

\* AppendKey inserting at the front: keys.insert(0, full_key).
AppendKeyFront(ks, full_key) == <<full_key>> \o ks

\* keys.append(full_key)
AppendKey(ks, full_key) == Append(ks, full_key)

\* ProbeFor without the lookup: every value gets a new probe.
ProbeForFresh(ps, full_key) == FieldTypeProbe(full_key)

\* The probe of full_key after "if not full_key in probes: ... else: ...".
ProbeFor(ps, full_key) ==
    IF full_key \notin DOMAIN ps THEN FieldTypeProbe(full_key) ELSE ps[full_key]

\* MakeField recording the concrete type of every agreed type, unicode too.
MakeFieldConcreteAlways(probe) ==
    LET field == Field(probe.field)
        storage_type == UniqueStorageType(probe)
    IN  IF ~Truthy(storage_type)
        THEN [field EXCEPT !.storage_type = "unknown"]
        ELSE [field EXCEPT !.storage_type = IF storage_type[1] = "unicode"
                                            THEN "string" ELSE "unknown",
                           !.concrete_storage_type = storage_type]

\* One pass of the loop "for key in keys": the Field built from a probe.
MakeField(probe) ==
    LET field == Field(probe.field)
        storage_type == UniqueStorageType(probe)
    IN  IF ~Truthy(storage_type)
        THEN [field EXCEPT !.storage_type = "unknown"]
        ELSE IF storage_type[1] = "unicode"
        THEN [field EXCEPT !.storage_type = "string"]
        ELSE [field EXCEPT !.storage_type = "unknown",
                           !.concrete_storage_type = storage_type]

\* A call probe_record(record, parent) about to take its first item.
Frame(record, parent) == [items |-> record.items, i |-> 0, parent |-> parent]

Top == stack[Len(stack)]
TopItem == Top.items[Top.i + 1]
\* The stack with the top frame moved past the item it just took.
Advanced == [stack EXCEPT ![Len(stack)].i = @ + 1]

\* Raise with the list built so far assigned on the way out, as a
\* "finally: self.fields = list(fields)" would.
RaiseAssigning(name) ==
    /\ pc' = "raised"
    /\ error' = name
    /\ fields' = Defined(flist)
    /\ UNCHANGED <<scopeVars, targetVars, before, expand, implemented, total, limit,
                   collapse, yielded, count, stack, keys, probes, j, flist, result>>

\* An exception leaves read_fields, which has no handler.
Raise(name) ==
    /\ pc' = "raised"
    /\ error' = name
    /\ UNCHANGED <<scopeVars, targetVars, before, expand, implemented, total, fields,
                   limit, collapse, yielded, count, stack, keys, probes, j, flist,
                   result>>

\* read_fields(lim, col) is called: keys = [], probes = {}, count = 0.
Call(lim, col) ==
    /\ pc = "idle"
    /\ limit' = lim
    /\ collapse' = col
    /\ keys' = <<>>
    /\ probes' = <<>>
    /\ count' = 0
    /\ pc' = "fetch"
    /\ before' = fields
    /\ UNCHANGED <<scopeVars, targetVars, expand, implemented, total, fields, yielded,
                   stack, j, flist, result, error>>

\* for record in self.records(): the iterator yields the next record; without
\* collapse, probe_record(record) is entered.
Fetch(record) ==
    /\ pc = "fetch"
    /\ implemented
    /\ Len(yielded) < total
    /\ yielded' = Append(yielded, record)
    /\ IF collapse
       THEN pc' = "collapse" /\ stack' = stack
       ELSE pc' = "probe" /\ stack' = <<Frame(record, None)>>
    /\ UNCHANGED <<scopeVars, targetVars, before, expand, implemented, total, fields,
                   limit, collapse, count, keys, probes, j, flist, result, error>>

\* record = collapse_record(record), then probe_record(record).
Collapse ==
    /\ pc = "collapse"
    /\ stack' = <<Frame(collapse_record(yielded[Len(yielded)]), None)>>
    /\ pc' = "probe"
    /\ UNCHANGED <<scopeVars, targetVars, before, expand, implemented, total, fields,
                   limit, collapse, yielded, count, keys, probes, j, flist, result,
                   error>>

\* collapse_record raises.
CollapseRaises ==
    /\ pc = "collapse"
    /\ Raise("FlattenFailure")

\* The iterator is exhausted: the loop ends and fields = [].
LoopEnd ==
    /\ pc = "fetch"
    /\ implemented
    /\ Len(yielded) = total
    /\ pc' = "build"
    /\ flist' = <<>>
    /\ j' = 0
    /\ UNCHANGED <<scopeVars, targetVars, before, expand, implemented, total, fields,
                   limit, collapse, yielded, count, stack, keys, probes, result, error>>

\* self.records() raises: NotImplementedError on a class that does not
\* override it, a failure of the backend otherwise.
RecordsRaises ==
    /\ pc = "fetch"
    /\ Raise(IF implemented THEN "BackendFailure" ELSE "NotImplementedError")

\* probe_record has taken every item of its record: it returns.
ProbeReturn ==
    /\ pc = "probe"
    /\ Top.i = Len(Top.items)
    /\ stack' = SubSeq(stack, 1, Len(stack) - 1)
    /\ pc' = IF Len(stack) = 1 THEN "check" ELSE "probe"
    /\ UNCHANGED <<scopeVars, targetVars, before, expand, implemented, total, fields,
                   limit, collapse, yielded, count, keys, probes, j, flist, result,
                   error>>

\* "if self.expand" on a stream with no attribute expand.
ExpandMissing ==
    /\ pc = "probe"
    /\ Top.i < Len(Top.items)
    /\ expand = "undefined"
    /\ Raise("AttributeError")

\* self.expand and type(value) == dict: probe_record(value, full_key).
ProbeDescend ==
    /\ pc = "probe"
    /\ Top.i < Len(Top.items)
    /\ expand = "True"
    /\ IsExactDict(TopItem[2])
    /\ stack' = Append(Advanced, Frame(TopItem[2], Some(FullKey(Top.parent, TopItem[1]))))
    /\ UNCHANGED <<scopeVars, targetVars, before, expand, implemented, total, fields, pc,
                   limit, collapse, yielded, count, keys, probes, j, flist, result,
                   error>>

\* The value is not expanded: at a leaf of the record.
AtLeaf ==
    /\ pc = "probe"
    /\ Top.i < Len(Top.items)
    /\ expand # "undefined"
    /\ ~(expand = "True" /\ IsExactDict(TopItem[2]))

\* Look up or create the probe of full_key and feed it the value.
ProbeFeed ==
    /\ AtLeaf
    /\ LET full_key == FullKey(Top.parent, TopItem[1])
           probe == ProbeFor(probes, full_key)
       IN  /\ keys' = IF full_key \notin DOMAIN probes THEN AppendKey(keys, full_key) ELSE keys
           /\ probes' = SetItem(probes, full_key, Probe(probe, TopItem[2]))
    /\ stack' = Advanced
    /\ UNCHANGED <<scopeVars, targetVars, before, expand, implemented, total, fields, pc,
                   limit, collapse, yielded, count, j, flist, result, error>>

\* FieldTypeProbe(full_key) or probe.probe(value) raises.
ProbeRaises ==
    /\ AtLeaf
    /\ Raise("ProbeFailure")

\* if limit and count >= limit: break
Break ==
    /\ pc = "check"
    /\ LimitReached(limit, count)
    /\ pc' = "build"
    /\ flist' = <<>>
    /\ j' = 0
    /\ UNCHANGED <<scopeVars, targetVars, before, expand, implemented, total, fields,
                   limit, collapse, yielded, count, stack, keys, probes, result, error>>

\* count += 1, and the loop goes on.
Continue ==
    /\ pc = "check"
    /\ ~LimitReached(limit, count)
    /\ count' = count + 1
    /\ pc' = "fetch"
    /\ UNCHANGED <<scopeVars, targetVars, before, expand, implemented, total, fields,
                   limit, collapse, yielded, stack, keys, probes, j, flist, result,
                   error>>

\* for key in keys: ... fields.append(field)
BuildField ==
    /\ pc = "build"
    /\ j < Len(keys)
    /\ flist' = Append(flist, MakeField(probes[keys[j + 1]]))
    /\ j' = j + 1
    /\ UNCHANGED <<scopeVars, targetVars, before, expand, implemented, total, fields, pc,
                   limit, collapse, yielded, count, stack, keys, probes, result, error>>

\* self.fields = list(fields); return self.fields
Return ==
    /\ pc = "build"
    /\ j = Len(keys)
    /\ fields' = Defined(flist)
    /\ result' = Defined(flist)
    /\ pc' = "done"
    /\ UNCHANGED <<scopeVars, targetVars, before, expand, implemented, total, limit,
                   collapse, yielded, count, stack, keys, probes, j, flist, error>>

(***************************************************************************)
(* The sources a call of read_fields is tried on                           *)
(***************************************************************************)
\* {"a": 1, "b": u"x"}
RecAB == Dict(<< <<"a", Int>>, <<"b", Text>> >>)
\* {"b": 2, "a": u"y"}, iterated b first
RecBA == Dict(<< <<"b", Int>>, <<"a", Text>> >>)
\* {"a": {"b": 1}}
RecNested == Dict(<< <<"a", Dict(<< <<"b", Int>> >>)>> >>)
\* {"b": {"a": {"b": u"x"}}, "a": 1}
RecDeep == Dict(<< <<"b", Dict(<< <<"a", Dict(<< <<"b", Text>> >>)>> >>)>>, <<"a", Int>> >>)
\* {"a": OrderedDict([("b", 1)])}
RecSubclass == Dict(<< <<"a", OrderedDict(<< <<"b", Int>> >>)>> >>)
\* {"": {"b": u"x"}}
RecEmptyKey == Dict(<< <<"", Dict(<< <<"b", Text>> >>)>> >>)
\* {"c": 3, "a": u"z"}
RecCA == Dict(<< <<"c", Int>>, <<"a", Text>> >>)
\* {}
RecEmpty == Dict(<<>>)

Records == {RecAB, RecBA, RecCA, RecNested, RecDeep, RecSubclass, RecEmptyKey, RecEmpty}

\* A field list assigned to the stream before the call.
PriorFields == << [Field("old") EXCEPT !.storage_type = "string"] >>

ReadIdle ==
    /\ pc = "idle"
    /\ limit = 0
    /\ collapse = FALSE
    /\ count = 0
    /\ stack = <<>>
    /\ keys = <<>>
    /\ probes = <<>>
    /\ j = 0
    /\ flist = <<>>
    /\ result = Undefined
    /\ error = ""
    /\ before = Undefined

\* A source after construction: DataSource.__init__ sets no attribute; a
\* subclass may set expand and fields and override records().
ReadInit ==
    /\ expand \in {"undefined", "True", "False"}
    /\ implemented \in BOOLEAN
    /\ total \in (IF implemented THEN 0..MaxRecords ELSE {0})
    /\ yielded = <<>>
    /\ fields \in {Undefined, Defined(PriorFields)}
    /\ ReadIdle

(***************************************************************************)
(* DataStream as a context manager: "with stream as s: body"               *)
(***************************************************************************)
ScopeInit ==
    /\ spc = "outside"
    /\ initCalls = 0
    /\ finCalls = 0
    /\ bodyRan = FALSE
    /\ consumed = 0
    /\ exc = ""
    /\ uses = 0

\* The with statement starts: __enter__ is about to be called.
With ==
    /\ spc \in {"outside", "left"}
    /\ uses < MaxUses
    /\ uses' = uses + 1
    /\ spc' = "enter"
    /\ initCalls' = 0
    /\ finCalls' = 0
    /\ bodyRan' = FALSE
    /\ consumed' = 0
    /\ exc' = ""
    /\ UNCHANGED <<readVars, targetVars>>

\* __enter__: self.initialize() returns, self is bound and the body starts.
Enter ==
    /\ spc = "enter"
    /\ initCalls' = initCalls + 1
    /\ bodyRan' = TRUE
    /\ spc' = "body"
    /\ UNCHANGED <<readVars, targetVars, finCalls, consumed, exc, uses>>

\* __enter__: self.initialize() raises; the with statement runs neither the
\* body nor __exit__.
EnterRaises ==
    /\ spc = "enter"
    /\ initCalls' = initCalls + 1
    /\ exc' = "InitializeError"
    /\ spc' = "left"
    /\ UNCHANGED <<readVars, targetVars, finCalls, bodyRan, consumed, uses>>

\* The body consumes one row.
BodyStep ==
    /\ spc = "body"
    /\ consumed < MaxBody
    /\ consumed' = consumed + 1
    /\ UNCHANGED <<readVars, targetVars, spc, initCalls, finCalls, bodyRan, exc, uses>>

\* The body raises.
BodyRaises ==
    /\ spc = "body"
    /\ exc' = "BodyError"
    /\ spc' = "exit"
    /\ UNCHANGED <<readVars, targetVars, initCalls, finCalls, bodyRan, consumed, uses>>

\* The body completes.
BodyEnds ==
    /\ spc = "body"
    /\ spc' = "exit"
    /\ UNCHANGED <<readVars, targetVars, initCalls, finCalls, bodyRan, consumed, exc,
                   uses>>

\* ExitFinalizes only when the body completed: "if exc_type is None".
ExitFinalizesOnSuccess(exc_type) == exc_type = ""

\* Whether __exit__(exc_type, exc_value, traceback) calls self.finalize().
ExitFinalizes(exc_type) == TRUE

\* __exit__: self.finalize() returns; __exit__ returns None, so an exception
\* of the body goes on to the caller.
Exit ==
    /\ spc = "exit"
    /\ finCalls' = IF ExitFinalizes(exc) THEN finCalls + 1 ELSE finCalls
    /\ spc' = "left"
    /\ UNCHANGED <<readVars, targetVars, initCalls, bodyRan, consumed, exc, uses>>

\* __exit__: self.finalize() raises.
ExitRaises ==
    /\ spc = "exit"
    /\ ExitFinalizes(exc)
    /\ finCalls' = finCalls + 1
    /\ exc' = "FinalizeError"
    /\ spc' = "left"
    /\ UNCHANGED <<readVars, targetVars, initCalls, bodyRan, consumed, uses>>

(***************************************************************************)
(* DataTarget.append                                                       *)
(***************************************************************************)
\* Field lists of a target: up to two distinct names.
FieldLists == {<<>>, <<"x">>, <<"y">>, <<"x", "y">>, <<"y", "x">>}

\* Objects passed to append: a tuple of 0 to 3 values, or a dict over x, y, z.
Row(n) == [kind |-> "row", values |-> [i \in 1..n |-> i], keys |-> {}]
Record(ks) == [kind |-> "record", values |-> <<>>, keys |-> ks]
Items == {Row(n) : n \in 0..3} \cup {Record(ks) : ks \in SUBSET {"x", "y", "z"}}

NoItem == [kind |-> "none", values |-> <<>>, keys |-> {}]

TargetInit ==
    /\ tfields \in FieldLists
    /\ item = NoItem
    /\ aerror = ""
    /\ appends = 0

\* AppendOutcome of an append that validates its item.
AppendOutcomeValidating(fs, object) ==
    IF object.kind = "row" /\ Len(object.values) > Len(fs) THEN "CardinalityMismatch"
    ELSE IF object.kind = "record" /\ ~(object.keys \subseteq Range(fs)) THEN "UnknownField"
    ELSE "NotImplementedError"

\* The exception append(object) raises on DataTarget, "" when it returns.
AppendOutcome(fs, object) == "NotImplementedError"

\* target.append(object)
AppendCall(object) ==
    /\ appends < MaxAppends
    /\ appends' = appends + 1
    /\ item' = object
    /\ aerror' = AppendOutcome(tfields, object)
    /\ UNCHANGED <<readVars, scopeVars, tfields>>

(***************************************************************************)
(* Specifications                                                          *)
(***************************************************************************)
\* A source on which read_fields is never called.
ReadQuiet ==
    /\ ReadIdle
    /\ expand = "undefined"
    /\ implemented = FALSE
    /\ total = 0
    /\ yielded = <<>>
    /\ fields = Undefined

\* A target on which append is never called.
TargetQuiet ==
    /\ tfields = <<>>
    /\ item = NoItem
    /\ aerror = ""
    /\ appends = 0

Init == ReadInit /\ ScopeInit /\ TargetQuiet

Next ==
    \/ \E lim \in 0..MaxLimit, col \in BOOLEAN : Call(lim, col)
    \/ \E record \in Records : Fetch(record)
    \/ Collapse
    \/ CollapseRaises
    \/ LoopEnd
    \/ RecordsRaises
    \/ ProbeReturn
    \/ ExpandMissing
    \/ ProbeDescend
    \/ ProbeFeed
    \/ ProbeRaises
    \/ Break
    \/ Continue
    \/ BuildField
    \/ Return

\* One call of read_fields on a source.
Spec == Init /\ [][Next]_vars

ScopeStart == ReadQuiet /\ ScopeInit /\ TargetQuiet

ScopeNext ==
    \/ With
    \/ Enter
    \/ EnterRaises
    \/ BodyStep
    \/ BodyRaises
    \/ BodyEnds
    \/ Exit
    \/ ExitRaises

\* A stream used in with-blocks, one after the other.
ScopeSpec == ScopeStart /\ [][ScopeNext]_vars

TargetStart == ReadQuiet /\ ScopeInit /\ TargetInit

TargetNext == \E object \in Items : AppendCall(object)

\* Appends on a target.
TargetSpec == TargetStart /\ [][TargetNext]_vars

(***************************************************************************)
(* Vocabulary of the properties                                            *)
(***************************************************************************)
IsPrefix(s, t) == Len(s) <= Len(t) /\ SubSeq(t, 1, Len(s)) = s

RECURSIVE Concat(_)
Concat(ss) == IF ss = <<>> THEN <<>> ELSE Head(ss) \o Concat(Tail(ss))

\* s without the repetitions of its elements: first occurrences, in order.
RECURSIVE FirstSeen(_)
FirstSeen(s) ==
    IF s = <<>> THEN <<>>
    ELSE LET init == FirstSeen(SubSeq(s, 1, Len(s) - 1))
             last == s[Len(s)]
         IN  IF last \in Range(init) THEN init ELSE Append(init, last)

NoDuplicates(s) == \A a, b \in DOMAIN s : s[a] = s[b] => a = b

Names(fs) == [i \in DOMAIN fs |-> fs[i].name]

\* The keys of the records of a stream, in the order the scan meets them.
TopKeys(stream) ==
    Concat([r \in DOMAIN stream |->
              [i \in DOMAIN stream[r].items |-> stream[r].items[i][1]]])

\* No value of any record of the stream is a mapping.
Flat(stream) ==
    \A r \in DOMAIN stream : \A i \in DOMAIN stream[r].items :
        ~IsMapping(stream[r].items[i][2])

\* The records handed to probe_record, in order.
Probed == [r \in DOMAIN yielded |->
             IF collapse THEN collapse_record(yielded[r]) ELSE yielded[r]]

\* <<qualified key, type>> of every value of a record that the scan does not
\* expand, depth first in iteration order, as probe_record is written.
RECURSIVE Visits(_, _)
Visits(items, parent) ==
    IF items = <<>> THEN <<>>
    ELSE LET key == Head(items)[1]
             value == Head(items)[2]
             full_key == FullKey(parent, key)
             here == IF expand = "True" /\ IsExactDict(value)
                     THEN Visits(value.items, Some(full_key))
                     ELSE << <<full_key, value.type>> >>
         IN  here \o Visits(Tail(items), parent)

\* The visits of the first n probed records.
VisitsOf(n) == Concat([r \in 1..n |-> Visits(Probed[r].items, None)])

\* <<"k1.k2...kn", type>> of every non-mapping leaf at path k1, ..., kn of a
\* record, every mapping on the way being entered.
RECURSIVE Leaves(_, _)
Leaves(items, path) ==
    IF items = <<>> THEN <<>>
    ELSE LET key == Head(items)[1]
             value == Head(items)[2]
             name == IF path = None THEN key ELSE path[1] \o "." \o key
             here == IF IsMapping(value)
                     THEN Leaves(value.items, Some(name))
                     ELSE << <<name, value.type>> >>
         IN  here \o Leaves(Tail(items), path)

Firsts(pairs) == [i \in DOMAIN pairs |-> pairs[i][1]]
TypesOf(k, pairs) ==
    LET kept == SelectSeq(pairs, LAMBDA p : p[1] = k)
    IN  [i \in DOMAIN kept |-> kept[i][2]]

Scanning == pc \in {"fetch", "collapse", "probe", "check"}
BetweenRecords == pc \in {"fetch", "check", "build", "done"}

(***************************************************************************)
(* Properties                                                              *)
(***************************************************************************)
\* C1: with a limit L >= 1 on a source that yields more than L records, the
\* scan probes exactly the first L records, and the returned fields are keys
\* discovered in those L records only.
C1_ProbesExactlyLimit ==
    (pc = "done" /\ limit >= 1 /\ total > limit) =>
        /\ Len(yielded) = limit
        /\ Range(Names(result.value)) = Range(Firsts(VisitsOf(limit)))

\* C2: on a stream with no nested mapping, read_fields(0, False) returns one
\* field per distinct key, without duplicates, in the order the keys were
\* first seen, and self.fields holds the same list.
C2_FirstSeenOrder ==
    (pc = "done" /\ limit = 0 /\ ~collapse /\ Flat(yielded)) =>
        /\ result.defined
        /\ Names(result.value) = FirstSeen(TopKeys(yielded))
        /\ NoDuplicates(Names(result.value))
        /\ fields = result

\* C2 witness: a flat stream of three records returned b, a, c, the order in
\* which the keys were met, which is not the sorted one.
C2_Witness ==
    /\ pc = "done" /\ limit = 0 /\ ~collapse /\ Flat(yielded)
    /\ Len(yielded) = 3
    /\ Names(result.value) = <<"b", "a", "c">>

\* C3: a field's storage_type is "string" exactly when every value probed
\* for its key has type unicode, and "unknown" otherwise; its
\* concrete_storage_type is recorded, as that one type, exactly when the
\* probed values share one type other than unicode; mixed evidence gives
\* "unknown" and no concrete type.
C3_StorageTypes ==
    \A i \in DOMAIN flist :
        LET f == flist[i]
            types == Range(probes[f.name].evidence)
        IN  /\ f.storage_type \in {"string", "unknown"}
            /\ f.storage_type = "string" <=> types = {"unicode"}
            /\ f.concrete_storage_type # None <=>
                   (Cardinality(types) = 1 /\ types # {"unicode"})
            /\ f.concrete_storage_type # None => types = {f.concrete_storage_type[1]}
            /\ Cardinality(types) # 1 =>
                   (f.storage_type = "unknown" /\ f.concrete_storage_type = None)

\* C3 witness: one returned list holds a string field, an unknown field with
\* concrete type int and an unknown field whose evidence is of two types.
C3_Witness ==
    /\ pc = "done"
    /\ result.value = flist
    /\ \E a, b, c \in DOMAIN flist :
        /\ flist[a].storage_type = "string"
        /\ flist[b].storage_type = "unknown" /\ flist[b].concrete_storage_type = Some("int")
        /\ flist[c].storage_type = "unknown" /\ flist[c].concrete_storage_type = None
        /\ Cardinality(Range(probes[flist[c].name].evidence)) = 2

\* C4: with collapse False and expand true, no mapping is ever fed to a
\* probe; the fields are exactly the names "k1.k2...kn" of the non-mapping
\* leaves at paths k1, ..., kn; a key whose values are all mappings gives no
\* field of its own name.
C4_ExpandsEveryMapping ==
    (~collapse /\ expand = "True") =>
        /\ \A k \in DOMAIN probes : \A t \in Range(probes[k].evidence) :
               t \notin {"dict", "OrderedDict"}
        /\ pc = "done" =>
            /\ Range(Names(result.value)) =
                   Range(Firsts(Concat([r \in DOMAIN yielded |->
                                          Leaves(yielded[r].items, None)])))
            /\ \A k \in Range(TopKeys(yielded)) :
                   (\A r \in DOMAIN yielded : \A i \in DOMAIN yielded[r].items :
                        yielded[r].items[i][1] = k => IsMapping(yielded[r].items[i][2]))
                   => k \notin Range(Names(result.value))

\* C5: with limit 0 the field list is built only after every record the
\* source yields has been probed.
C5_ZeroLimitScansAll ==
    (limit = 0 /\ pc \in {"build", "done"}) =>
        /\ Len(yielded) = total
        /\ Range(keys) = Range(Firsts(VisitsOf(total)))

\* C5 witness: a call with limit 0 returned after probing three or more
\* records.
C5_Witness ==
    /\ pc = "done" /\ limit = 0
    /\ total >= 3
    /\ Len(yielded) = total
    /\ keys # <<>>

\* C6: when records(), collapse_record or a probe raises, the caller gets
\* that error, self.fields is what it was before the call and nothing is
\* returned.
C6_NoPartialFields ==
    pc = "raised" =>
        /\ error \in {"NotImplementedError", "BackendFailure", "FlattenFailure",
                      "ProbeFailure", "AttributeError"}
        /\ fields = before
        /\ ~result.defined

\* C6 witness: a probe raised with two or more keys already discovered, and
\* the stream still holds the field list it had before the call.
C6_Witness ==
    /\ pc = "raised"
    /\ error = "ProbeFailure"
    /\ Len(keys) >= 2
    /\ fields = Defined(PriorFields)
    /\ ~result.defined

\* C8: read_fields raises nothing of its own: an error that reaches the
\* caller is one that records(), collapse_record or a probe raised.
C8_NoOwnError ==
    pc = "raised" =>
        error \in {"NotImplementedError", "BackendFailure", "FlattenFailure", "ProbeFailure"}

\* C10, in every state: every key has one probe, of its name; no Field is
\* built while the scan runs; between records keys is the first-seen order
\* of the keys visited and the evidence of a probe is the values of its key
\* visited so far, each once, in order.
C10_Invariant ==
    /\ DOMAIN probes = Range(keys)
    /\ NoDuplicates(keys)
    /\ \A k \in DOMAIN probes : probes[k].field = k
    /\ Scanning => (flist = <<>> /\ ~result.defined)
    /\ BetweenRecords =>
        LET visits == VisitsOf(Len(yielded))
        IN  /\ keys = FirstSeen(Firsts(visits))
            /\ \A k \in DOMAIN probes : probes[k].evidence = TypesOf(k, visits)

\* C10, of every step: keys and the evidence of a probe grow at their end
\* only, by one value at most, no probe is removed or replaced, and neither
\* changes once the scan loop has ended.
C10_Step ==
    /\ IsPrefix(keys, keys')
    /\ \A k \in DOMAIN probes :
        /\ k \in DOMAIN probes'
        /\ IsPrefix(probes[k].evidence, probes'[k].evidence)
        /\ Len(probes'[k].evidence) <= Len(probes[k].evidence) + 1
    /\ pc \in {"build", "done"} => (keys' = keys /\ probes' = probes)

\* C10: type derivation is cumulative and deferred: C10_Invariant holds in
\* every state and C10_Step of every step.
C10_CumulativeDeferred == [][C10_Step]_vars /\ []C10_Invariant

\* C10 witness: the first key was met as int, then as unicode in a later
\* record: its field is still first, with its type now unresolved.
C10_Witness ==
    /\ pc = "done"
    /\ Len(keys) >= 2
    /\ probes[keys[1]].evidence = <<"int", "unicode">>
    /\ result.value[1].name = keys[1]
    /\ result.value[1].concrete_storage_type = None

(***************************************************************************)
(* Properties of the with-block (ScopeSpec)                                *)
(***************************************************************************)
\* C7: in every with-block initialize is called once before the body runs,
\* and finalize once after the body ends, whether the body completed or
\* raised; finalize is never skipped and never called twice.
C7_FinalizeOncePerScope ==
    /\ initCalls <= 1
    /\ finCalls <= 1
    /\ spc \in {"body", "exit"} => (bodyRan /\ initCalls = 1 /\ finCalls = 0)
    /\ (spc = "left" /\ bodyRan) => (initCalls = 1 /\ finCalls = 1)
    /\ (spc = "left" /\ ~bodyRan) => finCalls = 0

\* C7 witness: in a second or later with-block the body raised after
\* consuming rows, and finalize was called once.
C7_Witness ==
    /\ spc = "left"
    /\ bodyRan
    /\ exc = "BodyError"
    /\ consumed >= 1
    /\ finCalls = 1
    /\ uses >= 2

(***************************************************************************)
(* Properties of append (TargetSpec)                                       *)
(***************************************************************************)
\* C9 as stated: append validates the item against the field list: more
\* values than fields is CardinalityMismatch, a key that is no field is
\* UnknownField.
C9_AppendValidates ==
    /\ (item.kind = "row" /\ Len(item.values) > Len(tfields))
           => aerror = "CardinalityMismatch"
    /\ (item.kind = "record" /\ ~(item.keys \subseteq Range(tfields)))
           => aerror = "UnknownField"

\* C9 as amended: append on DataTarget validates nothing: whatever the item
\* and the field list, it raises NotImplementedError.
C9_AppendNotImplemented ==
    appends > 0 => aerror = "NotImplementedError"

\* C9 witness: the second append on fields x, y was given a tuple of three
\* values and raised NotImplementedError.
C9_Witness ==
    /\ tfields = <<"x", "y">>
    /\ item = Row(3)
    /\ appends = 2
    /\ aerror = "NotImplementedError"

====
